---- MODULE Spec2Model ----
(***************************************************************************)
(* Model of the Conjure client core in tapdance/conjure.go: DialConjure,   *)
(* Register/testV6, ConjureSession.register with its fan-out of            *)
(* ConjureReg.send goroutines, and ConjureReg.Connect.                     *)
(*                                                                         *)
(* Abstractions.  Byte strings are represented symbolically: a key is a    *)
(* small integer, an HMAC digest is the record of its algorithm, key and   *)
(* message, a covert address is represented by its length.  A measured     *)
(* duration is represented by the index of the goroutine that measured it. *)
(***************************************************************************)
EXTENDS Integers, Sequences, FiniteSets, TLC

\* ------------------------------------------------------------------ bounds
\* Largest registration width (ConjureSession.Width) a caller passes in.
MaxWidth == 2
\* Longest SharedSecret, in bytes, IDString is called with.
MaxSecretLen == 6
\* Longest of the short covert addresses createRequest is called with.
MaxCovertLen == 6

\* ------------------------------------------------------- program constants
v4 == 0
v6 == 1
both == 2

defaultRegWidth == 5

MinTransport == 0
NullTransport == 1
Obfs4Transport == 2

Unreachable == 0
DialFailure == 1
NotImplemented == 2
Unknown == 3

AES_GCM_TAG_SIZE == 16
MaxUint16 == 65535

\* The flags byte of the FSP, as the set of the bits that are set in it.
default_flags == {"default"}
tdFlagProxyHeader == {"ProxyHeader"}

\* ------------------------------------------------------------------ errors
\* A Go error value: nil, a RegError value, a *RegError, or any other error.
NoError == [type |-> "nil", code |-> -1, msg |-> ""]
RegError(code, msg) == [type |-> "RegError", code |-> code, msg |-> msg]
RegErrorPtr(code, msg) == [type |-> "*RegError", code |-> code, msg |-> msg]
PlainError(msg) == [type |-> "error", code |-> -1, msg |-> msg]

\* --------------------------------------------------------------- the keys
SharedSecrets == {1, 2}

\* generateSharedKeys: every subkey is an HKDF output of the shared secret.
generateSharedKeys(secret) ==
    [SharedSecret    |-> secret,
     Representative  |-> <<"elligator", secret>>,
     FspKey          |-> <<"hkdf", secret, 1>>,
     FspIv           |-> <<"hkdf", secret, 2>>,
     VspKey          |-> <<"hkdf", secret, 3>>,
     VspIv           |-> <<"hkdf", secret, 4>>,
     NewMasterSecret |-> <<"hkdf", secret, 5>>,
     ConjureSeed     |-> <<"hkdf", secret, 6>>]

\* conjureHMAC(key, str): HMAC-SHA256 of str under key, kept symbolic.
conjureHMAC(key, str) == [alg |-> "HMAC-SHA256", key |-> key, msg |-> str]

MinTransportHMACString == <<"MinTrasportHMACString">>

\* The decimal digits of i, most significant first (the %d of fmt.Sprintf).
RECURSIVE Decimal(_)
Decimal(i) == IF i < 10 THEN <<i>> ELSE Decimal(i \div 10) \o <<i % 10>>

\* fmt.Sprintf("registrationdecoy%d", i)
RegistrationDecoyString(i) == <<"registrationdecoy">> \o Decimal(i)

\* The number a message's digits spell (0 for a message without digits).
RECURSIVE DigitsValue(_)
DigitsValue(ds) ==
    IF ds = <<>> THEN 0 ELSE DigitsValue(SubSeq(ds, 1, Len(ds) - 1)) * 10 + ds[Len(ds)]

\* The bytes of a digest.  The 32 bytes of SHA-256 are scaled down to 4
\* (so that the integer they spell fits), each a deterministic mix of the
\* key and the message.
hmacBytes(h) ==
    LET c == DigitsValue(Tail(h.msg))
    IN  <<(h.key * 3 + c) % 128, (h.key + c) % 128,
          (h.key * 7 + c * 5) % 128, (h.key * 5 + c * 3 + 1) % 128>>

\* big.Int.SetBytes: the bytes read as a big-endian unsigned integer.
RECURSIVE SetBytes(_)
SetBytes(b) ==
    IF b = <<>> THEN 0 ELSE SetBytes(SubSeq(b, 1, Len(b) - 1)) * 256 + b[Len(b)]

\* hmacInt reading only the leading quarter of the digest (hmac[:8] of 32).
hmacIntPrefixOnly(h) == SetBytes(SubSeq(hmacBytes(h), 1, 1))

\* SelectDecoys' hmacInt: SetBytes(hmac[:8]) is overwritten by
\* SetBytes(hmac), the whole digest; Abs leaves an unsigned value alone.
hmacInt(h) ==
    LET prefix == SetBytes(SubSeq(hmacBytes(h), 1, 1))
        whole == SetBytes(hmacBytes(h))
    IN  IF whole < 0 THEN -whole ELSE whole

\* ----------------------------------------------------------------- assets
D4 == [name |-> "d4", v4 |-> TRUE, v6 |-> FALSE]
D6 == [name |-> "d6", v4 |-> FALSE, v6 |-> TRUE]

\* The decoy lists an asset bundle may hold.
AssetDecoyLists == { <<D4, D6>>, <<D6>> }

RECURSIVE FilterSeq(_, _)
FilterSeq(s, fam) ==
    IF s = <<>> THEN <<>>
    ELSE IF (fam = v4 /\ Head(s).v4) \/ (fam = v6 /\ Head(s).v6)
         THEN <<Head(s)>> \o FilterSeq(Tail(s), fam)
         ELSE FilterSeq(Tail(s), fam)

GetV4Decoys(list) == FilterSeq(list, v4)
GetV6Decoys(list) == FilterSeq(list, v6)
GetAllDecoys(list) == list

\* decoy.GetIpAddrStr(): the v4 address when the decoy has one.
GetIpAddrFamily(d) == IF d.v4 THEN "v4" ELSE "v6"

\* SelectDecoys: width draws from the pool of the chosen family, the i-th at
\* index hmac("registrationdecoy<i>") mod len(pool).  big.Int.Mod panics on
\* an empty pool.
SelectDecoys(sharedSecret, version, width, list) ==
    LET allDecoys == CASE version = v6 -> GetV6Decoys(list)
                       [] version = v4 -> GetV4Decoys(list)
                       [] version = both -> GetAllDecoys(list)
                       [] OTHER -> GetAllDecoys(list)
        numDecoys == Len(allDecoys)
        idx(i) == hmacInt(conjureHMAC(sharedSecret, RegistrationDecoyString(i))) % numDecoys
    IN  IF width > 0 /\ numDecoys = 0
        THEN [panic |-> TRUE, decoys |-> <<>>]
        ELSE [panic |-> FALSE,
              decoys |-> [i \in 1..width |-> allDecoys[idx(i - 1) + 1]]]

\* The family of the phantom the selector derives from the seed when v6 is
\* allowed (the selector itself lives outside this file).
SeedFamily(seed) == IF seed[2] % 2 = 1 THEN "v6" ELSE "v4"

NilIP == [family |-> "nil", seed |-> <<>>]

\* SelectPhantom: the selector's address, or its error.
SelectPhantom(seed, v6Support) ==
    { [ip |-> [family |-> IF v6Support THEN SeedFamily(seed) ELSE "v4", seed |-> seed],
       err |-> NoError],
      [ip |-> NilIP, err |-> PlainError("phantom selector")] }

\* --------------------------------------------------------------- payloads
\* Size of a protobuf varint.
VarintSize(n) ==
    IF n < 128 THEN 1
    ELSE IF n < 16384 THEN 2
    ELSE IF n < 2097152 THEN 3
    ELSE IF n < 268435456 THEN 4 ELSE 5

\* proto.Size of the ClientToStation message generateVSP builds: the covert
\* address (absent when empty), the generation, the v6 flag, the padding
\* (absent when empty).  phantomSNI is never set, so the field is absent.
ProtoSize(covertLen, gen, padLen) ==
      (IF covertLen > 0 THEN 2 + VarintSize(covertLen) + covertLen ELSE 0)
    + (1 + VarintSize(gen))
    + (2 + 1)
    + (IF padLen > 0 THEN 2 + VarintSize(padLen) + padLen ELSE 0)

\* PaddingLen padding the bare message, without the AEAD tag, to a multiple of 3.
RECURSIVE PaddingLenNoAeadTag(_, _, _)
PaddingLenNoAeadTag(covertLen, gen, padLen) ==
    IF ProtoSize(covertLen, gen, padLen) % 3 # 0
    THEN PaddingLenNoAeadTag(covertLen, gen, padLen + 1)
    ELSE padLen

\* generateVSP's padding loop: the number of zero bytes appended.
RECURSIVE PaddingLen(_, _, _)
PaddingLen(covertLen, gen, padLen) ==
    IF (ProtoSize(covertLen, gen, padLen) + AES_GCM_TAG_SIZE) % 3 # 0
    THEN PaddingLen(covertLen, gen, padLen + 1)
    ELSE padLen

\* generateVSP: the length of the marshalled, padded message.
generateVSP(r, gen) ==
    ProtoSize(r.covertAddress, gen, PaddingLen(r.covertAddress, gen, 0))

\* generateFSP: 6 bytes, the size big-endian in the first two, then the flags.
generateFSP(r, espSize) ==
    LET flags == IF r.useProxyHeader
                 THEN default_flags \cup tdFlagProxyHeader
                 ELSE default_flags
    IN  <<espSize \div 256, espSize % 256, flags, 0, 0, 0>>

\* createRequest: the error it returns (the request itself is not modelled).
createRequest(r, gen) ==
    IF generateVSP(r, gen) > MaxUint16
    THEN PlainError("Variable-Size Payload exceeds 65535")
    ELSE NoError

\* Length of aesGcmEncrypt's output: the plaintext and the AEAD tag.
aesGcmEncrypt(plainLen) == plainLen + AES_GCM_TAG_SIZE

\* Length of keys.Representative, an Elligator representative.
RepresentativeLen == 32

\* createRequest: the length of tag = encryptedVsp || Representative || encryptedFsp.
TagLen(r, gen) ==
    LET encryptedVsp == aesGcmEncrypt(generateVSP(r, gen))
        encryptedFsp == aesGcmEncrypt(Len(generateFSP(r, encryptedVsp % (MaxUint16 + 1))))
    IN  encryptedVsp + RepresentativeLen + encryptedFsp

\* ------------------------------------------------------------- identifiers
HexDigits == <<"0", "1", "2", "3", "4", "5", "6", "7", "8", "9",
               "a", "b", "c", "d", "e", "f">>

\* hex.Encode: two lower-case hex characters per byte, high nibble first.
RECURSIVE HexEncode(_)
HexEncode(bytes) ==
    IF bytes = <<>> THEN <<>>
    ELSE <<HexDigits[(Head(bytes) \div 16) + 1], HexDigits[(Head(bytes) % 16) + 1]>>
         \o HexEncode(Tail(bytes))

\* strconv.FormatUint(i, 10): the characters of i's decimal digits.
FormatUint(i) == [k \in 1..Len(Decimal(i)) |-> HexDigits[Decimal(i)[k] + 1]]

\* fmt.Sprintf("[%v-%s]", id, suffix)
IDFormat(id, suffix) == <<"[">> \o FormatUint(id) \o <<"-">> \o suffix \o <<"]">>

ZeroSuffix == <<"0", "0", "0", "0", "0", "0">>

\* IDString cutting the hex secret at 12 characters.
IDStringTwelve(SessionID, keysNil, SharedSecret) ==
    IF keysNil \/ SharedSecret.isNil
    THEN IDFormat(SessionID, ZeroSuffix)
    ELSE LET secret == HexEncode(SharedSecret.bytes)
             n == Len(secret)
         IN  IF n < 12
             THEN IDFormat(SessionID, ZeroSuffix)
             ELSE IDFormat(SessionID, SubSeq(secret, 1, 12))

\* ConjureSession.IDString
IDString(SessionID, keysNil, SharedSecret) ==
    IF keysNil \/ SharedSecret.isNil
    THEN IDFormat(SessionID, ZeroSuffix)
    ELSE LET secret == HexEncode(SharedSecret.bytes)
             n == Len(secret)
         IN  IF n < 6
             THEN IDFormat(SessionID, ZeroSuffix)
             ELSE IDFormat(SessionID, SubSeq(secret, 1, 6))

\* ------------------------------------------------------------------ state
VARIABLES
    session,            \* the ConjureSession passed to DialConjure (isNil: a nil pointer)
    assets,             \* Assets(): decoy list, generation, v6-support cache
    net,                \* the network: which address families are reachable
    ctxCancelled,       \* ctx.Done() is closed
    pc,                 \* where DialConjure is
    probe,              \* the goroutine of testV6
    probeChan,          \* testV6's dialError channel (capacity 1)
    reg,                \* the ConjureReg built by register (isNil before)
    dialErrors,         \* register's dialErrors channel (capacity width)
    unreachableCount,   \* register's unreachableCount
    tasks,              \* the reg.send goroutines, one per chosen decoy
    registration,       \* what Register returned to DialConjure
    slept,              \* DialConjure went through time.Sleep(toSleep)
    setV6Calls,         \* number of Assets().SetV6Support calls
    phantomConn,        \* the TCP connection to the phantom and what was written
    result,             \* what DialConjure returned
    call                \* the last direct call of a function: name, arguments, result

vars == <<session, assets, net, call, ctxCancelled, pc, probe, probeChan, reg, dialErrors,
          unreachableCount, tasks, registration, slept, setV6Calls, phantomConn, result>>

Transports == {MinTransport, NullTransport, Obfs4Transport, Obfs4Transport + 1}

\* Covert addresses, by length.
CovertAddresses == {4, 70000}

Networks == {"dual", "v4only", "none"}

V6(support, include) == [support |-> support, include |-> include]

NilReg ==
    [isNil |-> TRUE, keys |-> generateSharedKeys(0), phantom |-> NilIP,
     v6Support |-> FALSE, covertAddress |-> 0, useProxyHeader |-> FALSE,
     transport |-> 0, m |-> 0,
     stats |-> [TcpToDecoy |-> 0, TlsToDecoy |-> 0, guarded |-> TRUE]]

NilSession ==
    [isNil |-> TRUE, Keys |-> generateSharedKeys(0), Width |-> 0,
     V6Support |-> V6(FALSE, v4), UseProxyHeader |-> FALSE, RegDecoys |-> <<>>,
     Phantom |-> NilIP, Transport |-> 0, CovertAddress |-> 0]

\* A session as a caller of DialConjure may build it.
Sessions(v6cache) ==
    { [isNil |-> FALSE, Keys |-> generateSharedKeys(k), Width |-> w,
       V6Support |-> v6cache, UseProxyHeader |-> ph, RegDecoys |-> <<>>,
       Phantom |-> NilIP, Transport |-> tr, CovertAddress |-> ca] :
        k \in SharedSecrets, w \in 0..MaxWidth, ph \in BOOLEAN,
        tr \in Transports, ca \in CovertAddresses }

\* makeConjureSession: nil when generateSharedKeys fails, else a session of
\* the default width with the Null transport.  (Its width lies beyond
\* MaxWidth, so Init takes from it the nil session only.)
makeConjureSession(covert, keys, err, v6cache) ==
    IF err # NoError
    THEN NilSession
    ELSE [isNil |-> FALSE, Keys |-> keys, Width |-> defaultRegWidth,
          V6Support |-> v6cache, UseProxyHeader |-> FALSE, RegDecoys |-> <<>>,
          Phantom |-> NilIP, Transport |-> NullTransport, CovertAddress |-> covert]

NoResult == [returned |-> FALSE, conn |-> "nil", err |-> NoError]

NoCall == [fn |-> "none"]

Init ==
    /\ \E list \in AssetDecoyLists :
          assets = [decoys |-> list, generation |-> 1, v6Support |-> V6(TRUE, v6)]
    /\ session \in Sessions(assets.v6Support)
                  \cup { makeConjureSession(ca, generateSharedKeys(0),
                                            PlainError("generateSharedKeys"),
                                            assets.v6Support) : ca \in CovertAddresses }
    /\ net \in Networks
    /\ ctxCancelled = FALSE
    /\ pc = "start"
    /\ probe = "idle"
    /\ probeChan = <<>>
    /\ reg = NilReg
    /\ dialErrors = <<>>
    /\ unreachableCount = 0
    /\ tasks = <<>>
    /\ registration = [returned |-> FALSE, reg |-> "nil", err |-> NoError]
    /\ slept = FALSE
    /\ setV6Calls = 0
    /\ phantomConn = [state |-> "none", writes |-> <<>>]
    /\ result = NoResult
    /\ call = NoCall

\* ------------------------------------------------------------ environment
\* Outcomes of a TCP dial to an address of the given family.
DialOutcomes(family) ==
    CASE net = "none" -> {"unreachable"}
      [] net = "v4only" /\ family = "v6" -> {"unreachable"}
      [] OTHER -> {"ok", "refused"}

\* The caller cancels ctx.
Cancel ==
    /\ ~ctxCancelled
    /\ pc \notin {"done", "panic"}
    /\ ctxCancelled' = TRUE
    /\ UNCHANGED <<session, assets, net, call, pc, probe, probeChan, reg, dialErrors,
                   unreachableCount, tasks, registration, slept, setV6Calls,
                   phantomConn, result>>

\* ------------------------------------------------------------ DialConjure
Returned(conn, err) == [returned |-> TRUE, conn |-> conn, err |-> err]

\* DialConjure called with a nil session.
DialConjureNil ==
    /\ pc = "start"
    /\ session.isNil
    /\ pc' = "done"
    /\ result' = Returned("nil", PlainError("No Session Provided"))
    /\ UNCHANGED <<session, assets, net, call, ctxCancelled, probe, probeChan, reg, dialErrors,
                   unreachableCount, tasks, registration, slept, setV6Calls, phantomConn>>

\* TestV6Start without DialConjure's nil check in front of it.
TestV6StartNoNilCheck ==
    /\ pc = "start"
    /\ pc' = "testV6"
    /\ probe' = "dialing"
    /\ UNCHANGED <<session, assets, net, call, ctxCancelled, probeChan, reg, dialErrors,
                   unreachableCount, tasks, registration, slept, setV6Calls,
                   phantomConn, result>>

\* DialConjure -> Register -> testV6: start the probe goroutine and sleep 500us.
TestV6Start ==
    /\ pc = "start"
    /\ ~session.isNil
    /\ pc' = "testV6"
    /\ probe' = "dialing"
    /\ UNCHANGED <<session, assets, net, call, ctxCancelled, probeChan, reg, dialErrors,
                   unreachableCount, tasks, registration, slept, setV6Calls,
                   phantomConn, result>>

\* The probe goroutine: net.Dial to a v6 decoy finishes within testV6's sleep
\* and posts its result.  A probe still dialing when testV6 returns stays
\* "dialing": its later post goes to a channel nobody reads any more.
ProbeDial ==
    /\ pc = "testV6"
    /\ probe = "dialing"
    /\ Len(probeChan) < 1
    /\ \E o \in DialOutcomes("v6") :
          probeChan' = <<IF o = "ok" THEN NoError ELSE PlainError(o)>>
    /\ probe' = "done"
    /\ UNCHANGED <<session, assets, net, call, ctxCancelled, pc, reg, dialErrors,
                   unreachableCount, tasks, registration, slept, setV6Calls,
                   phantomConn, result>>

\* testV6's select after the sleep: anything received means "no v6".
testV6(chan) == chan = <<>>

\* setV6Support switching the family to v4 and leaving support set.
setV6SupportKeepsSupport(support) ==
    CASE support = v4 -> V6(TRUE, v4)
      [] support = v6 -> V6(TRUE, v6)
      [] support = both -> V6(TRUE, both)
      [] OTHER -> V6(TRUE, v6)

\* ConjureSession.setV6Support
setV6Support(support) ==
    CASE support = v4 -> V6(FALSE, v4)
      [] support = v6 -> V6(TRUE, v6)
      [] support = both -> V6(TRUE, both)
      [] OTHER -> V6(TRUE, v6)

\* AfterRegister with the asset update moved in front of the error check.
AfterRegisterUpdatesAssetsFirst(r, err, v6rec) ==
    /\ registration' = [returned |-> TRUE, reg |-> r, err |-> err]
    /\ assets' = [assets EXCEPT !.v6Support = v6rec]
    /\ setV6Calls' = setV6Calls + 1
    /\ IF err # NoError
       THEN /\ pc' = "done"
            /\ result' = Returned("nil", err)
       ELSE /\ pc' = "sleep"
            /\ UNCHANGED result

\* DialConjure once Register has returned (r, err): on an error return it,
\* otherwise store the session's V6 record in the assets and go to sleep.
AfterRegister(r, err, v6rec) ==
    /\ registration' = [returned |-> TRUE, reg |-> r, err |-> err]
    /\ IF err # NoError
       THEN /\ pc' = "done"
            /\ result' = Returned("nil", err)
            /\ UNCHANGED <<assets, setV6Calls>>
       ELSE /\ pc' = "sleep"
            /\ assets' = [assets EXCEPT !.v6Support = v6rec]
            /\ setV6Calls' = setV6Calls + 1
            /\ UNCHANGED result

NewTask(decoy) ==
    [pc |-> "dial", decoy |-> decoy, conn |-> "none", rtt |-> 0, posts |-> 0,
     result |-> [type |-> "none", code |-> -1, msg |-> ""]]

\* The spawn loop with every goroutine seeing the loop variable's last value.
SpawnTasksLastDecoy(decoys) ==
    [t \in 1..Len(decoys) |-> NewTask(decoys[Len(decoys)])]

\* register's spawn loop: one send goroutine per entry of RegDecoys.
SpawnTasks(decoys) == [t \in 1..Len(decoys) |-> NewTask(decoys[t])]

\* make(chan error, 0)
dialErrorsCapUnbuffered(decoys) == 0

\* make(chan error, width), width = len(RegDecoys)
dialErrorsCap(decoys) == Len(decoys)

\* Register after testV6's sleep, and ConjureSession.register up to its loop:
\* set the family, select decoys and phantom, build the registration, spawn
\* one send goroutine per decoy.
RegisterSpawn ==
    /\ pc = "testV6"
    /\ LET v6rec == setV6Support(IF testV6(probeChan) THEN both ELSE v4)
           sel == SelectDecoys(session.Keys.SharedSecret, v6rec.include,
                               session.Width, assets.decoys)
       IN  /\ probeChan' = <<>>
           /\ IF sel.panic
              THEN /\ pc' = "panic"
                   /\ session' = [session EXCEPT !.V6Support = v6rec]
                   /\ UNCHANGED <<assets, reg, tasks, registration, setV6Calls, result>>
              ELSE \E ph \in SelectPhantom(session.Keys.ConjureSeed, v6rec.support) :
                   /\ session' = [session EXCEPT !.V6Support = v6rec,
                                                 !.RegDecoys = sel.decoys,
                                                 !.Phantom = ph.ip]
                   /\ IF ph.err # NoError \/ ph.ip = NilIP
                      THEN /\ AfterRegister("nil", ph.err, v6rec)
                           /\ UNCHANGED <<reg, tasks>>
                      ELSE /\ reg' = [isNil |-> FALSE,
                                      keys |-> session.Keys,
                                      phantom |-> ph.ip,
                                      v6Support |-> v6rec.support,
                                      covertAddress |-> session.CovertAddress,
                                      useProxyHeader |-> FALSE,
                                      transport |-> 0,
                                      m |-> 0,
                                      stats |-> [TcpToDecoy |-> 0, TlsToDecoy |-> 0,
                                                 guarded |-> TRUE]]
                           /\ tasks' = SpawnTasks(sel.decoys)
                           /\ pc' = "wait"
                           /\ UNCHANGED <<assets, registration, setV6Calls, result>>
    /\ UNCHANGED <<net, call, ctxCancelled, probe, dialErrors, unreachableCount, slept,
                   phantomConn>>

\* register's type assertion err.(RegError) with code Unreachable.
IsUnreachable(err) == err.type = "RegError" /\ err.code = Unreachable

\* LoopContinues going on after every error, Unreachable or not.
LoopContinuesOnAnyError(err, count, width) ==
    err # NoError /\ (IF IsUnreachable(err) THEN count < width ELSE TRUE)

\* register's loop body: TRUE when the loop reads another result (continue).
\* count is unreachableCount after this result was tallied.
LoopContinues(err, count, width) ==
    err # NoError /\ IsUnreachable(err) /\ count < width

\* RegisterReturn failing the session as soon as one result was Unreachable.
RegisterReturnAnyUnreachable(count, width) ==
    IF count > 0
    THEN [reg |-> "nil",
          err |-> RegErrorPtr(Unreachable, "All decoys failed to register -- Dial Unreachable")]
    ELSE [reg |-> "reg", err |-> NoError]

\* register's return after the loop.
RegisterReturn(count, width) ==
    IF count = width
    THEN [reg |-> "nil",
          err |-> RegErrorPtr(Unreachable, "All decoys failed to register -- Dial Unreachable")]
    ELSE [reg |-> "reg", err |-> NoError]

\* One iteration of register's loop over dialErrors, and, when it leaves the
\* loop, register's return and DialConjure's handling of it.
RegisterRecv ==
    /\ pc = "wait"
    /\ dialErrors # <<>>
    /\ LET err == Head(dialErrors)
           width == Len(session.RegDecoys)
           count == IF err # NoError /\ IsUnreachable(err)
                    THEN unreachableCount + 1 ELSE unreachableCount
       IN  /\ dialErrors' = Tail(dialErrors)
           /\ unreachableCount' = count
           /\ IF LoopContinues(err, count, width)
              THEN UNCHANGED <<pc, registration, result, assets, setV6Calls>>
              ELSE LET ret == RegisterReturn(count, width)
                   IN  AfterRegister(ret.reg, ret.err, session.V6Support)
    /\ UNCHANGED <<session, net, call, ctxCancelled, probe, probeChan, reg, tasks, slept,
                   phantomConn>>

\* DialConjure's time.Sleep(toSleep) ends and Connect starts dialing the phantom.
SleepDone ==
    /\ pc = "sleep"
    /\ slept' = TRUE
    /\ pc' = "connect"
    /\ phantomConn' = [state |-> "dialing", writes |-> <<>>]
    /\ UNCHANGED <<session, assets, net, call, ctxCancelled, probe, probeChan, reg, dialErrors,
                   unreachableCount, tasks, registration, setV6Calls, result>>

\* ConnectTag with the typo of the context string "corrected".
ConnectTagTypoFixed(r) == conjureHMAC(r.keys.SharedSecret, <<"MinTransportHMACString">>)

\* The connect tag of the Min transport.
ConnectTag(r) == conjureHMAC(r.keys.SharedSecret, MinTransportHMACString)

\* ConjureReg.Connect after a successful dial: the switch on reg.transport
\* and the return.
ConnectTransport(r) ==
    CASE r.transport = MinTransport ->
            [writes |-> <<ConnectTag(r)>>, conn |-> "nil", err |-> NoError]
      [] r.transport = Obfs4Transport ->
            [writes |-> <<>>, conn |-> "nil",
             err |-> PlainError("connect not yet implemented")]
      [] OTHER ->
            [writes |-> <<ConnectTag(r)>>, conn |-> "nil", err |-> NoError]

\* ConjureReg.Connect: DialContext(childCtx) to the phantom finishes.
ConnectDial ==
    /\ pc = "connect"
    /\ \E o \in (IF ctxCancelled THEN {"canceled"}
                 ELSE DialOutcomes(reg.phantom.family)) :
          IF o = "ok"
          THEN LET c == ConnectTransport(reg)
               IN  /\ phantomConn' = [state |-> "open", writes |-> c.writes]
                   /\ result' = Returned(c.conn, c.err)
          ELSE /\ phantomConn' = [state |-> "failed", writes |-> <<>>]
               /\ result' = Returned("nil", PlainError(o))
    /\ pc' = "done"
    /\ UNCHANGED <<session, assets, net, call, ctxCancelled, probe, probeChan, reg, dialErrors,
                   unreachableCount, tasks, registration, slept, setV6Calls>>

\* -------------------------------------------------------- ConjureReg.send
\* reg.m.Lock() by task t, and the deferred reg.m.Unlock().  m holds the
\* task that has the mutex, 0 when it is free.
Lock(r, t) == [r EXCEPT !.m = t]
Unlock(r) == [r EXCEPT !.m = 0]

\* A write of a field of reg.stats by task t.  stats.guarded records that
\* every write so far was made by the task holding reg.m.
WriteStats(r, t, field, value) ==
    [r EXCEPT !.stats[field] = value, !.stats.guarded = @ /\ (r.m = t)]

\* setTCPToDecoy writing the field without taking the mutex.
setTCPToDecoyNoLock(r, t, tcprtt) == WriteStats(r, t, "TcpToDecoy", tcprtt)

\* ConjureReg.setTCPToDecoy: Lock, write, Unlock.
setTCPToDecoy(r, t, tcprtt) == Unlock(WriteStats(Lock(r, t), t, "TcpToDecoy", tcprtt))

\* ConjureReg.setTLSToDecoy: Lock, write, Unlock.
setTLSToDecoy(r, t, tlsrtt) == Unlock(WriteStats(Lock(r, t), t, "TlsToDecoy", tlsrtt))

\* createRequest overwriting Representative in place while it masks the tag.
createRequestMasksRepresentative(keys) ==
    [keys EXCEPT !.Representative = <<"masked", @[2]>>]

\* The keys after createRequest: it reads VspKey, VspIv, FspKey and FspIv,
\* and append copies Representative behind encryptedVsp; none is written.
createRequestKeys(keys) == keys

\* dialError <- e
Post(t, e, newpc, conn) ==
    /\ Len(dialErrors) < dialErrorsCap(session.RegDecoys)
    /\ dialErrors' = Append(dialErrors, e)
    /\ tasks' = [tasks EXCEPT ![t].pc = newpc, ![t].conn = conn, ![t].result = e,
                              ![t].rtt = 0, ![t].posts = @ + 1]

\* send: the TCP dial to the decoy finishes; setTCPToDecoy; post on failure.
TaskDial(t) ==
    /\ tasks[t].pc = "dial"
    /\ reg.m = 0
    /\ reg' = setTCPToDecoy(reg, t, t)
    /\ \E o \in DialOutcomes(GetIpAddrFamily(tasks[t].decoy)) :
          CASE o = "ok" ->
                 /\ tasks' = [tasks EXCEPT ![t].pc = "tls", ![t].conn = "open"]
                 /\ UNCHANGED dialErrors
            [] o = "unreachable" ->
                 Post(t, RegError(Unreachable, "connect: network is unreachable"),
                      "done", "none")
            [] OTHER -> Post(t, PlainError(o), "done", "none")
    /\ UNCHANGED <<session, assets, net, call, ctxCancelled, pc, probe, probeChan,
                   unreachableCount, registration, slept, setV6Calls, phantomConn, result>>

\* send: read the RTT from the shared stats, run the TLS handshake;
\* on failure close the TCP connection and post, else setTLSToDecoy.
TaskTLS(t) ==
    /\ tasks[t].pc = "tls"
    /\ \E ok \in BOOLEAN :
          IF ok
          THEN /\ tasks' = [tasks EXCEPT ![t].pc = "request",
                                         ![t].rtt = reg.stats.TcpToDecoy]
               /\ reg.m = 0
               /\ reg' = setTLSToDecoy(reg, t, 1)
               /\ UNCHANGED dialErrors
          ELSE /\ Post(t, PlainError("tls"), "done", "closed")
               /\ UNCHANGED reg
    /\ UNCHANGED <<session, assets, net, call, ctxCancelled, pc, probe, probeChan,
                   unreachableCount, registration, slept, setV6Calls, phantomConn, result>>

\* send: createRequest and the write of the request.  A createRequest error
\* is posted with the connection left open; a write error closes it.
TaskRequest(t) ==
    /\ tasks[t].pc = "request"
    /\ reg' = [reg EXCEPT !.keys = createRequestKeys(@)]
    /\ LET err == createRequest(reg, assets.generation)
       IN  IF err # NoError
           THEN Post(t, err, "done", "open")
           ELSE \E ok \in BOOLEAN :
                  IF ok THEN Post(t, NoError, "drain", "open")
                  ELSE Post(t, PlainError("write"), "done", "closed")
    /\ UNCHANGED <<session, assets, net, call, ctxCancelled, pc, probe, probeChan,
                   unreachableCount, registration, slept, setV6Calls, phantomConn, result>>

\* send: readAndClose and the callback.
TaskDrain(t) ==
    /\ tasks[t].pc = "drain"
    /\ tasks' = [tasks EXCEPT ![t].pc = "done", ![t].conn = "closed"]
    /\ UNCHANGED <<session, assets, net, call, ctxCancelled, pc, probe, probeChan, reg,
                   dialErrors, unreachableCount, registration, slept, setV6Calls,
                   phantomConn, result>>

Next ==
    \/ Cancel
    \/ DialConjureNil
    \/ TestV6Start
    \/ ProbeDial
    \/ RegisterSpawn
    \/ RegisterRecv
    \/ SleepDone
    \/ ConnectDial
    \/ \E t \in DOMAIN tasks : TaskDial(t)
    \/ \E t \in DOMAIN tasks : TaskTLS(t)
    \/ \E t \in DOMAIN tasks : TaskRequest(t)
    \/ \E t \in DOMAIN tasks : TaskDrain(t)

Spec == Init /\ [][Next]_vars

\* Any step of the send goroutine t.
TaskStep(t) ==
    /\ t \in DOMAIN tasks
    /\ (TaskDial(t) \/ TaskTLS(t) \/ TaskRequest(t) \/ TaskDrain(t))

\* The Go scheduler runs every goroutine that can run: DialConjure's own
\* goroutine (testV6's sleep ends, register's loop receives what is in the
\* channel) and each send goroutine, whose dial, handshake and write end.
Fairness ==
    /\ WF_vars(TestV6Start)
    /\ WF_vars(RegisterSpawn)
    /\ WF_vars(RegisterRecv)
    /\ \A t \in 1..(MaxWidth + 1) : WF_vars(TaskStep(t))

SpecFair == Init /\ [][Next]_vars /\ Fairness

\* ----------------------------------------------------------------- claims
IsUnreachableKind(e) == e.type \in {"RegError", "*RegError"} /\ e.code = Unreachable

PhantomConnected == phantomConn.state = "open"

\* C1: whenever the phantom TCP dial succeeds and the transport is Min, Null
\* or an unrecognized value, DialConjure returns the live connection
\* (non-nil) with a nil error; (nil, nil) is never returned.
C1_ConnectReturnsLiveConn ==
    (pc = "done" /\ PhantomConnected /\ session.Transport # Obfs4Transport)
        => (result.conn # "nil" /\ result.err = NoError)

\* C2: for every width >= 1 and every arrival order, register returns an
\* Unreachable error exactly when all width task results are Unreachable;
\* otherwise it returns the Registration with a nil error and DialConjure
\* goes on towards the phantom connect.
C2_UnreachableIffAllUnreachable ==
    (registration.returned /\ Len(tasks) >= 1)
        => /\ IsUnreachableKind(registration.err)
                <=> (\A t \in DOMAIN tasks : IsUnreachableKind(tasks[t].result))
           /\ (\E t \in DOMAIN tasks : tasks[t].result.type \in {"nil", "error"})
                => /\ registration.reg = "reg"
                   /\ registration.err = NoError
                   /\ pc \in {"sleep", "connect", "done"}
                   /\ (pc = "done" => slept /\ phantomConn.state # "none")

\* C2 witness: two tasks, one result Unreachable and one success, and
\* register has returned the Registration.
C2_Witness ==
    /\ registration.returned
    /\ Len(tasks) = 2
    /\ \E t \in DOMAIN tasks : IsUnreachableKind(tasks[t].result)
    /\ \E t \in DOMAIN tasks : tasks[t].result = NoError
    /\ registration.reg = "reg"
    /\ pc = "done"

\* C3: whenever registration fails, DialConjure returns that error and has
\* neither slept, nor dialed the phantom, nor called SetV6Support.
C3_RegistrationFailureAborts ==
    (registration.returned /\ registration.err # NoError)
        => /\ pc = "done"
           /\ result = Returned("nil", registration.err)
           /\ ~slept
           /\ phantomConn.state = "none"
           /\ setV6Calls = 0
           /\ assets.v6Support = V6(TRUE, v6)

\* C3 witness: every one of two decoy dials was network-unreachable and
\* DialConjure has returned the Unreachable error.
C3_Witness ==
    /\ Len(tasks) = 2
    /\ \A t \in DOMAIN tasks : IsUnreachableKind(tasks[t].result)
    /\ registration.returned
    /\ IsUnreachableKind(result.err)
    /\ pc = "done"

\* C4: when every dial to a v6 address is network-unreachable and a dial to
\* a v4 decoy succeeded, the finished session has a v4 phantom and the asset
\* cache is {supported: false, family: v4}, whatever the probe's timing.
C4_V4Fallback ==
    (/\ pc = "done"
     /\ net = "v4only"
     /\ \E t \in DOMAIN tasks :
            GetIpAddrFamily(tasks[t].decoy) = "v4" /\ tasks[t].conn # "none")
        => /\ registration.reg = "reg"
           /\ session.Phantom.family = "v4"
           /\ assets.v6Support = V6(FALSE, v4)

\* C5: for a session whose transport is Null nothing is written to the
\* phantom connection before it is returned.
C5_NullWritesNothing ==
    (session.Transport = NullTransport /\ PhantomConnected)
        => phantomConn.writes = <<>>

\* C6: the Registration carries the session's keys, phantom, covert address,
\* IPv6 flag, PROXY-header flag and transport, so that UseProxyHeader sets the
\* PROXY-header bit of the FSP's flags byte.
C6_RegistrationSharesSession ==
    ~reg.isNil
        => /\ reg.keys = session.Keys
           /\ reg.phantom = session.Phantom
           /\ reg.covertAddress = session.CovertAddress
           /\ reg.v6Support = session.V6Support.support
           /\ reg.useProxyHeader = session.UseProxyHeader
           /\ reg.transport = session.Transport
           /\ session.UseProxyHeader
                => tdFlagProxyHeader \subseteq generateFSP(reg, 0)[3]

\* C7: when the variable-size payload exceeds 0xFFFF bytes, dial fails with
\* the payload-size error before any decoy dial, sleep or phantom dial.
C7_PayloadTooLargeBeforeNetwork ==
    (/\ ~session.isNil
     /\ generateVSP([covertAddress |-> session.CovertAddress], assets.generation)
            > MaxUint16)
        => /\ tasks = <<>>
           /\ ~slept
           /\ phantomConn.state = "none"
           /\ (pc = "done" => result.err = createRequest(
                    [covertAddress |-> session.CovertAddress], assets.generation))

\* C8: once ctx is cancelled, DialConjure at a suspension point (waiting for
\* registration results, sleeping, dialing the phantom) takes no step other
\* than returning an error.
C8_CancelAborts ==
    [][(ctxCancelled /\ pc \in {"wait", "sleep", "connect"})
         => (pc' = pc \/ (pc' = "done" /\ result'.err # NoError))]_vars

\* C9: for the Min transport and for an unrecognized transport value, right
\* after the phantom connect exactly one write is made and its bytes are
\* HMAC-SHA256(SharedSecret, "MinTrasportHMACString") under the session's
\* SharedSecret.
C9_MinConnectTag ==
    (session.Transport \in {MinTransport, Obfs4Transport + 1} /\ PhantomConnected)
        => phantomConn.writes =
             <<conjureHMAC(session.Keys.SharedSecret, MinTransportHMACString)>>

\* C9 witness: a session with an unrecognized transport is connected to the
\* phantom and one tag has been written.
C9_Witness ==
    /\ session.Transport = Obfs4Transport + 1
    /\ PhantomConnected
    /\ Len(phantomConn.writes) = 1
    /\ pc = "done"

\* C10: for the Obfs4 transport Connect returns no connection and an error
\* of the kind NotImplemented.
C10_Obfs4NotImplemented ==
    (session.Transport = Obfs4Transport /\ pc = "done" /\ PhantomConnected)
        => /\ result.conn = "nil"
           /\ result.err.type \in {"RegError", "*RegError"}
           /\ result.err.code = NotImplemented

\* ------------------------------------------------- calls of the functions
\* A second specification: the functions of the file called one after the
\* other on inputs from bounded sets, each call recorded in `call`.

D46 == [name |-> "d46", v4 |-> TRUE, v6 |-> TRUE]

CallDecoyLists == AssetDecoyLists \cup { <<D4, D6, D46>>, <<D46, D6, D4>> }

RECURSIVE SeqsUpTo(_, _)
SeqsUpTo(S, n) ==
    IF n = 0 THEN { <<>> }
    ELSE SeqsUpTo(S, n - 1)
         \cup { Append(q, x) : q \in { r \in SeqsUpTo(S, n - 1) : Len(r) = n - 1 }, x \in S }

SecretBytes == {10, 171}

CallSecrets ==
    { [isNil |-> TRUE, bytes |-> <<>>] }
        \cup { [isNil |-> FALSE, bytes |-> b] : b \in SeqsUpTo(SecretBytes, MaxSecretLen) }

CallSessionIDs == {0, 7, 120}

CallCovertLens == (0..MaxCovertLen) \cup {120, 121, 122, 127, 128, 65507, 65508, 65509, 70000}

CallGenerations == {0, 1, 127, 128, 16383, 16384, 2097151, 2097152, 268435455, 268435456}

InitPure ==
    /\ session = NilSession
    /\ assets = [decoys |-> <<D4, D6>>, generation |-> 1, v6Support |-> V6(TRUE, v6)]
    /\ net = "none"
    /\ ctxCancelled = FALSE
    /\ pc = "calls"
    /\ probe = "idle"
    /\ probeChan = <<>>
    /\ reg = NilReg
    /\ dialErrors = <<>>
    /\ unreachableCount = 0
    /\ tasks = <<>>
    /\ registration = [returned |-> FALSE, reg |-> "nil", err |-> NoError]
    /\ slept = FALSE
    /\ setV6Calls = 0
    /\ phantomConn = [state |-> "none", writes |-> <<>>]
    /\ result = NoResult
    /\ call = NoCall

PureUnchanged ==
    UNCHANGED <<session, assets, net, ctxCancelled, pc, probe, probeChan, reg, dialErrors,
                unreachableCount, tasks, registration, slept, setV6Calls,
                phantomConn, result>>

CallSelectDecoys ==
    /\ call = NoCall
    /\ \E secret \in SharedSecrets, version \in {v4, v6, both, both + 1},
           width \in 0..MaxWidth, list \in CallDecoyLists :
          call' = [fn |-> "SelectDecoys",
                   args |-> [sharedSecret |-> secret, version |-> version,
                             width |-> width, list |-> list],
                   ret |-> SelectDecoys(secret, version, width, list)]
    /\ PureUnchanged

CallIDString ==
    /\ call = NoCall
    /\ \E id \in CallSessionIDs, keysNil \in BOOLEAN, secret \in CallSecrets :
          call' = [fn |-> "IDString",
                   args |-> [SessionID |-> id, keysNil |-> keysNil, SharedSecret |-> secret],
                   ret |-> IDString(id, keysNil, secret)]
    /\ PureUnchanged

CallCreateRequest ==
    /\ call = NoCall
    /\ \E covert \in CallCovertLens, gen \in CallGenerations,
           proxy \in BOOLEAN, v6s \in BOOLEAN :
          LET r == [covertAddress |-> covert, useProxyHeader |-> proxy, v6Support |-> v6s]
          IN  call' = [fn |-> "createRequest",
                       args |-> [reg |-> r, gen |-> gen],
                       ret |-> [err |-> createRequest(r, gen),
                                padLen |-> PaddingLen(covert, gen, 0),
                                vspLen |-> generateVSP(r, gen),
                                fsp |-> generateFSP(r, aesGcmEncrypt(generateVSP(r, gen))
                                                          % (MaxUint16 + 1)),
                                tagLen |-> TagLen(r, gen)]]
    /\ PureUnchanged

\* The caller takes the result; the next call may follow.
CallReturn ==
    /\ call # NoCall
    /\ call' = NoCall
    /\ PureUnchanged

NextPure ==
    \/ CallSelectDecoys
    \/ CallIDString
    \/ CallCreateRequest
    \/ CallReturn

SpecPure == InitPure /\ [][NextPure]_vars

\* The decoy pool SelectDecoys draws from for a family.
PoolOf(version, list) ==
    CASE version = v4 -> GetV4Decoys(list)
      [] version = v6 -> GetV6Decoys(list)
      [] OTHER -> GetAllDecoys(list)

\* register has run SelectDecoys.
Selected == ~session.isNil /\ pc \notin {"start", "testV6"}

Min(a, b) == IF a < b THEN a ELSE b

\* C11: with an empty decoy pool for the chosen family SelectDecoys returns an
\* empty slice, without a panic, and the registration fails as Unreachable:
\* it neither hangs nor succeeds.
C11_EmptyPoolIsUnreachable ==
    (Selected /\ Len(PoolOf(session.V6Support.include, assets.decoys)) = 0)
        => /\ pc = "done"
           /\ session.RegDecoys = <<>>
           /\ IsUnreachableKind(result.err)

\* C12: the number of registration tasks register spawns is
\* min(W, number of decoys of the chosen family), for every W > 0.
C12_EffectiveWidth ==
    (Selected /\ ~reg.isNil /\ session.Width > 0)
        => Len(tasks) = Min(session.Width,
                            Len(PoolOf(session.V6Support.include, assets.decoys)))

\* C13 (as stated): the attempts of a session share keys and phantom and
\* each targets a distinct decoy.
C13_DistinctDecoys ==
    ~reg.isNil
        => /\ reg.keys = session.Keys
           /\ reg.phantom = session.Phantom
           /\ \A t1, t2 \in DOMAIN tasks :
                 t1 # t2 => tasks[t1].decoy # tasks[t2].decoy

\* C13 (amended): the attempts of a session all run on the one Registration,
\* which carries the session's keys and phantom; attempt i targets the i-th
\* decoy SelectDecoys drew from the pool of the chosen family, and the draws
\* need not be distinct.
C13_SharedKeysDrawnDecoys ==
    ~reg.isNil
        => /\ reg.keys = session.Keys
           /\ reg.phantom = session.Phantom
           /\ Len(tasks) = Len(session.RegDecoys)
           /\ \A t \in DOMAIN tasks :
                 /\ tasks[t].decoy = session.RegDecoys[t]
                 /\ \E k \in DOMAIN PoolOf(session.V6Support.include, assets.decoys) :
                       tasks[t].decoy = PoolOf(session.V6Support.include, assets.decoys)[k]

\* C13 witness: the two attempts of one session have both dialled the same
\* decoy, the only one of the pool.
C13_Witness ==
    /\ ~reg.isNil
    /\ Len(tasks) = 2
    /\ tasks[1].decoy = tasks[2].decoy
    /\ Len(PoolOf(session.V6Support.include, assets.decoys)) = 1
    /\ tasks[1].pc # "dial"
    /\ tasks[2].pc # "dial"

\* C14: every failed registration attempt posts an error of exactly one of
\* two kinds, Unreachable for a network-unreachable TCP dial and DialFailure
\* for every other failure.
C14_TwoErrorKinds ==
    \A t \in DOMAIN tasks :
        (tasks[t].posts > 0 /\ tasks[t].result # NoError)
            => /\ tasks[t].result.type = "RegError"
               /\ tasks[t].result.code \in {Unreachable, DialFailure}

\* C15: DialConjure with a nil session returns the no-session error and runs
\* no probe, no registration, no sleep and no phantom dial, and leaves the
\* asset IPv6 cache alone.
C15_NilSession ==
    session.isNil
        => /\ probe = "idle"
           /\ probeChan = <<>>
           /\ reg.isNil
           /\ tasks = <<>>
           /\ ~registration.returned
           /\ ~slept
           /\ phantomConn.state = "none"
           /\ setV6Calls = 0
           /\ assets.v6Support = V6(TRUE, v6)
           /\ pc \in {"start", "done"}
           /\ (pc = "done" => result = Returned("nil", PlainError("No Session Provided")))

\* C15 witness: DialConjure has returned for a nil session.
C15_Witness ==
    /\ session.isNil
    /\ pc = "done"
    /\ result.returned
    /\ result.err # NoError

\* The digest's bytes read big-endian, written out byte by byte.
BigEndian(b) == ((b[1] * 256 + b[2]) * 256 + b[3]) * 256 + b[4]

\* C16: SelectDecoys returns width decoys, a function of its arguments only,
\* the i-th being pool[HMAC(shared_secret, "registrationdecoy" + decimal(i))
\* mod len(pool)] with the whole digest read as a big-endian unsigned integer.
C16_SelectDecoysByWholeDigest ==
    (call.fn = "SelectDecoys" /\ ~call.ret.panic)
        => LET a == call.args
               pool == PoolOf(a.version, a.list)
               digest(i) == hmacBytes(conjureHMAC(a.sharedSecret,
                                                  <<"registrationdecoy">> \o Decimal(i)))
           IN  /\ Len(call.ret.decoys) = a.width
               /\ \A i \in 1..a.width :
                     call.ret.decoys[i] = pool[(BigEndian(digest(i - 1)) % Len(pool)) + 1]
               /\ call.ret = SelectDecoys(a.sharedSecret, a.version, a.width, a.list)

\* C16 witness: a call drew two different decoys from a pool of three, at
\* indices the digest's leading byte alone would not give.
C16_Witness ==
    /\ call.fn = "SelectDecoys"
    /\ ~call.ret.panic
    /\ call.args.width = 2
    /\ Len(PoolOf(call.args.version, call.args.list)) = 3
    /\ call.ret.decoys[1] # call.ret.decoys[2]
    /\ \E i \in 1..2 :
          LET d == hmacBytes(conjureHMAC(call.args.sharedSecret,
                                         <<"registrationdecoy">> \o Decimal(i - 1)))
          IN  d[1] % 3 # BigEndian(d) % 3

\* The first k characters of a string.
Prefix(str, k) == SubSeq(str, 1, Min(k, Len(str)))

\* C17 (as stated): the identifier is "[<id>-<first 12 hex characters of
\* SharedSecret>]" once keys exist and "[<id>-000000]" when the keys or the
\* shared secret are absent.
C17_TwelveHexChars ==
    call.fn = "IDString"
        => LET a == call.args
           IN  call.ret =
                 IF a.keysNil \/ a.SharedSecret.isNil
                 THEN <<"[">> \o FormatUint(a.SessionID) \o <<"-">> \o ZeroSuffix \o <<"]">>
                 ELSE <<"[">> \o FormatUint(a.SessionID) \o <<"-">>
                      \o Prefix(HexEncode(a.SharedSecret.bytes), 12) \o <<"]">>

\* C17 (amended): the identifier is "[<id>-<first 6 hex characters of
\* SharedSecret>]" when keys exist and the shared secret has at least 3
\* bytes, and "[<id>-000000]" when the keys or the shared secret are absent
\* or the secret is shorter than 3 bytes.
C17_SixHexChars ==
    call.fn = "IDString"
        => LET a == call.args
               b == a.SharedSecret.bytes
           IN  call.ret =
                 IF a.keysNil \/ a.SharedSecret.isNil \/ Len(b) < 3
                 THEN <<"[">> \o FormatUint(a.SessionID) \o <<"-">> \o ZeroSuffix \o <<"]">>
                 ELSE <<"[">> \o FormatUint(a.SessionID) \o <<"-">>
                      \o HexEncode(<<b[1], b[2], b[3]>>) \o <<"]">>

\* C17 witness: IDString was called on a session with keys and a secret of
\* 6 bytes or more, whose first 12 hex characters differ from its first 6.
C17_Witness ==
    /\ call.fn = "IDString"
    /\ ~call.args.keysNil
    /\ ~call.args.SharedSecret.isNil
    /\ Len(call.args.SharedSecret.bytes) >= 6
    /\ call.args.SessionID >= 10
    /\ Len(call.ret) = Len(FormatUint(call.args.SessionID)) + 9

\* C18: the padding loop of generateVSP terminates, after at most two zero
\* bytes, with len(VSP) + 16 a multiple of 3, and the tag createRequest
\* builds from it (encrypted VSP, 32-byte Representative, 22-byte encrypted
\* FSP) has a length divisible by 3.
C18_TagLengthDivisibleBy3 ==
    call.fn = "createRequest"
        => /\ call.ret.padLen \in 0..2
           /\ (call.ret.vspLen + AES_GCM_TAG_SIZE) % 3 = 0
           /\ aesGcmEncrypt(Len(call.ret.fsp)) = 22
           /\ call.ret.tagLen = (call.ret.vspLen + 16) + 32 + 22
           /\ call.ret.tagLen % 3 = 0

\* C18 witness: createRequest built a request whose VSP needed two bytes of
\* padding, with the proxy-header flag set.
C18_Witness ==
    /\ call.fn = "createRequest"
    /\ call.ret.err = NoError
    /\ call.ret.padLen = 2
    /\ call.args.reg.useProxyHeader
    /\ call.args.reg.covertAddress > 0

\* Number of tasks that have posted a result.
NumPosted == Cardinality({t \in DOMAIN tasks : tasks[t].posts > 0})

C20_OnePostNeverBlocks ==
    /\ \A t \in DOMAIN tasks :
          tasks[t].posts = (IF tasks[t].pc \in {"drain", "done"} THEN 1 ELSE 0)
    /\ tasks # <<>>
          => Len(dialErrors) + (Len(tasks) - NumPosted) <= dialErrorsCap(session.RegDecoys)

\* C20 witness: both tasks have finished, one of them after register had
\* returned, on different paths through send.
C20_Witness ==
    /\ Len(tasks) = 2
    /\ registration.returned
    /\ \A t \in DOMAIN tasks : tasks[t].pc = "done" /\ tasks[t].posts = 1
    /\ tasks[1].result # tasks[2].result
    /\ Len(dialErrors) = 1

\* C21: the probe declares v6 unsupported (family v4) exactly when the
\* probe dial reported an error within the 500us window; a probe that has
\* not finished, or has finished successfully, gives family both.
C21_UnsupportedIffProbeError ==
    [][(pc = "testV6" /\ pc' # "testV6")
          => LET probeError == probeChan # <<>> /\ Head(probeChan) # NoError
             IN  /\ (session'.V6Support.include = v4) <=> probeError
                 /\ (session'.V6Support.include = both) <=> ~probeError]_vars

\* C22: the FSP createRequest encrypts is 6 bytes long, its first two
\* bytes are the big-endian length of the encrypted VSP, AEAD tag included,
\* for every VSP that passes the size check, and its last three bytes are 0.
C22_FspCarriesEncryptedVspLength ==
    (call.fn = "createRequest" /\ call.ret.err = NoError)
        => /\ Len(call.ret.fsp) = 6
           /\ call.ret.fsp[1] * 256 + call.ret.fsp[2] = call.ret.vspLen + AES_GCM_TAG_SIZE
           /\ \A k \in 4..6 : call.ret.fsp[k] = 0

\* reg with its stats set aside.
WithoutStats(r) == [r EXCEPT !.stats = NilReg.stats]

\* C23: registration tasks write the stats of the Registration only while
\* they hold its mutex, and a step of a task changes nothing else of the
\* Registration and nothing of the session.
C23_StatsUnderMutexOnly ==
    /\ [](reg.stats.guarded /\ reg.m = 0)
    /\ [][(tasks # <<>> /\ tasks' # tasks)
            => /\ WithoutStats(reg') = WithoutStats(reg)
               /\ session' = session]_vars

\* C23 witness: two tasks have both written TcpToDecoy and one TlsToDecoy.
C23_Witness ==
    /\ Len(tasks) = 2
    /\ \A t \in DOMAIN tasks : tasks[t].pc # "dial"
    /\ reg.stats.TcpToDecoy = 2
    /\ reg.stats.TlsToDecoy = 1
    /\ reg.stats.guarded

\* C24: once the Registration exists, no step of register, send,
\* createRequest or Connect changes the SharedKeys it references: they stay
\* the values generateSharedKeys derived, in the Registration and the session.
C24_SharedKeysReadOnly ==
    /\ [](~reg.isNil => /\ reg.keys = generateSharedKeys(reg.keys.SharedSecret)
                         /\ session.Keys = reg.keys)
    /\ [][~reg.isNil => (reg'.keys = reg.keys /\ session'.Keys = session.Keys)]_vars

\* C24 witness: a task built and wrote its request and Connect wrote the
\* connect tag to the phantom.
C24_Witness ==
    /\ ~reg.isNil
    /\ \E t \in DOMAIN tasks : tasks[t].posts = 1 /\ tasks[t].result = NoError
    /\ pc = "done"
    /\ phantomConn.state = "open"
    /\ phantomConn.writes # <<>>

\* C25: in every registration run the IPv6 decisions agree: setV6Support
\* leaves support = (include # v4); the decoys are drawn from the v4 pool
\* exactly when the flag given to SelectPhantom is false, which forces a v4
\* phantom, and the Registration carries that same flag.
C25_V6DecisionsConsistent ==
    /\ \A s \in {v4, v6, both, both + 1} :
          setV6Support(s).support = (setV6Support(s).include # v4)
    /\ Selected
          => /\ session.V6Support.support = (session.V6Support.include # v4)
             /\ session.RegDecoys # <<>>
                   => session.RegDecoys =
                        SelectDecoys(session.Keys.SharedSecret,
                                     IF session.V6Support.support THEN both ELSE v4,
                                     session.Width, assets.decoys).decoys
             /\ ~reg.isNil
                   => /\ reg.v6Support = session.V6Support.support
                      /\ reg.phantom = session.Phantom
                      /\ ~reg.v6Support => reg.phantom.family = "v4"

\* C25 witness: a v4-only run has registered with a v4 phantom.
C25_Witness ==
    /\ ~reg.isNil
    /\ session.V6Support.include = v4
    /\ ~reg.v6Support
    /\ reg.phantom.family = "v4"
    /\ Len(tasks) = 2
    /\ registration.returned

\* C26: the RTT a task uses for its TLS deadline is the TCP-to-decoy time
\* that task measured itself (task t writes the value t).
C26_RttIsOwnMeasurement ==
    \A t \in DOMAIN tasks : tasks[t].pc = "request" => tasks[t].rtt = t

\* C27: a task that has finished has closed the TCP connection it opened,
\* whichever way it finished.
C27_ConnectionClosedAtFinish ==
    \A t \in DOMAIN tasks : tasks[t].pc = "done" => tasks[t].conn \in {"none", "closed"}

\* C28: with every task finishing its dial, handshake and write, register,
\* once called, eventually returns, whatever the width and the decoy pool
\* (a crash of SelectDecoys on an empty pool set aside).
C28_RegisterReturns ==
    (pc = "testV6") ~> (registration.returned \/ pc = "panic")

====
